---- MODULE Spec2Model ----
(***************************************************************************)
(* Session registry of the stronghold plugin (src/src/lib.rs).             *)
(*                                                                         *)
(* StrongholdCollection is an Arc<Mutex<HashMap<PathBuf, Stronghold>>>.    *)
(* Every public operation is an async fn that a caller runs to completion; *)
(* callers run concurrently and synchronise only on the Mutex.  Each       *)
(* operation is cut into steps at the points where another caller can      *)
(* interleave: before a lock acquisition and around an engine call that    *)
(* is made without the lock, or with the lock held (destroy, save).        *)
(***************************************************************************)
EXTENDS Integers, Sequences, FiniteSets, TLC

\* ---------------------------------------------------------------- bounds
MaxSessions == 3
MaxOps == 3
MaxPwLen == 2

\* Two concurrent callers and two snapshot paths.
Callers == {"c1", "c2"}
Paths == {"p", "q"}

\* A password is a String; its buffer is a sequence of bytes.  The text of
\* a password holds non-zero bytes, one value standing for all of them.
PwBytes == {7}
Passwords == UNION {[1..n -> PwBytes] : n \in 0..MaxPwLen}

\* Derived keys a PasswordHashFn can return (any Vec<u8>).
Hashes == {"k1", "k2"}
NoHash == "nohash"

\* ------------------------------------------------------------ operations
RegistryOps == {"initialize", "destroy", "save"}
StrongholdOps == {"create_client", "load_client"}
ClientOps == {"get_store_record", "save_store_record", "remove_store_record",
              "save_secret", "unsafe_get_secret", "remove_secret",
              "execute_procedure"}
ClientScopedOps == StrongholdOps \cup ClientOps
Ops == RegistryOps \cup ClientScopedOps

\* Result<()> of an operation as the caller sees it.
Results == {"Ok", "NotInitialized", "EngineError"}
NoResult == "pending"

\* A Session (Stronghold) is identified by the path it was opened for and
\* the ordinal of the open that created it.
Sessions == Paths \X (1..MaxSessions)
NoSess == <<"-", 0>>
SessPath(s) == s[1]

\* Values of the history variable lastWrite besides a Session: no initialize
\* has completed for the path yet; a destroy of the path's Session completed.
Never == <<"-", 0>>
Removed == <<"-", 1>>

FREE == "free"

VARIABLES
    registry,    \* the HashMap: a set of <<path, session>> entries
    lock,        \* the Mutex: FREE or the caller holding the guard
    pc,          \* each caller's position in its operation
    op,          \* the operation a caller runs
    path,        \* its snapshot_path argument
    pw,          \* its password buffer (initialize)
    hash,        \* the derived key, once computed (initialize)
    held,        \* the Stronghold a caller owns, borrows or has cloned
    saveRes,     \* outcome of stronghold.save() in destroy / save
    result,      \* the value the operation returned
    nextSess,    \* number of snapshots opened so far
    opsStarted,  \* number of operations started so far
    engine,      \* history: engine calls made by the caller's current operation
    lastWrite    \* history: per path, the last completed change of its entry

vars == <<registry, lock, pc, op, path, pw, hash, held, saveRes, result,
          nextSess, opsStarted, engine, lastWrite>>

\* The engine state behind one open Session, as the store and vault facades
\* see it, and the record of the facade call made last.
VARIABLES
    clients,     \* client paths (bytes) that were created or loaded
    vaultDb,     \* the vaults: a set of <<client, location, secret>>
    storeDb,     \* the stores: a set of <<client, key, value, lifetime>>
    last,        \* the facade call made last, with its result
    wroteAs      \* history: the forms of the keys of the last secret written

evars == <<clients, vaultDb, storeDb, last, wroteAs>>

\* A procedure request on its way from the wire to the engine.
VARIABLES
    req,         \* the request as received (tag and payload)
    stage,       \* "idle", "received", "rejected", "parsed", "executed",
                 \* or the error of get_client
    dto,         \* the ProcedureDto deserialized from it, or the error
    proc,        \* the StrongholdProcedure built from the dto
    handed       \* the procedures handed to the engine so far

tvars == <<req, stage, dto, proc, handed>>

allvars == <<vars, evars, tvars>>

\* ------------------------------------------------------------- HashMap
MapGet(m, p) == IF \E e \in m : e[1] = p
                THEN (CHOOSE e \in m : e[1] = p)[2]
                ELSE NoSess

MapRemove(m, p) == {e \in m : e[1] # p}

\* Faulty lookup: tests the map for emptiness instead of the key.
MapHasAny(m, p) == m # {}
MapHas(m, p) == \E e \in m : e[1] = p

\* Faulty inserts: keep the old entry; drop the other keys; add without
\* replacing.
MapInsertKeepOld(m, p, s) == IF MapHas(m, p) THEN m ELSE m \cup {<<p, s>>}
MapInsertDropOthers(m, p, s) == {<<p, s>>}
MapInsertNoReplace(m, p, s) == m \cup {<<p, s>>}
MapInsert(m, p, s) == MapRemove(m, p) \cup {<<p, s>>}

\* Faulty scrub: only the first byte is overwritten.
ZeroizeFirst(buf) == [i \in DOMAIN buf |-> IF i = 1 THEN 0 ELSE buf[i]]

\* String::zeroize: every byte of the buffer is overwritten with zero.
Zeroize(buf) == [i \in DOMAIN buf |-> 0]

IsZeroed(buf) == \A i \in DOMAIN buf : buf[i] = 0

\* --------------------------------------------------------------- Init
Init ==
    /\ registry = {}
    /\ lock = FREE
    /\ pc = [c \in Callers |-> "idle"]
    /\ op = [c \in Callers |-> "none"]
    /\ path = [c \in Callers |-> "p"]
    /\ pw = [c \in Callers |-> <<>>]
    /\ hash = [c \in Callers |-> NoHash]
    /\ held = [c \in Callers |-> NoSess]
    /\ saveRes = [c \in Callers |-> NoResult]
    /\ result = [c \in Callers |-> NoResult]
    /\ nextSess = 0
    /\ opsStarted = 0
    /\ engine = [c \in Callers |-> {}]
    /\ lastWrite = [p \in Paths |-> Never]

FirstPc(o) ==
    CASE o = "initialize" -> "i_hash"
      [] o = "destroy" -> "d_lock"
      [] o = "save" -> "s_lock"
      [] OTHER -> "g_lock"

\* Callers that will still open a snapshot (session ordinals are capped).
Opening == Cardinality({d \in Callers : pc[d] \in {"i_hash", "i_zero", "i_open"}})

\* A caller invokes one of the public operations.
Call(c) ==
    /\ UNCHANGED <<evars, tvars>>
    /\ pc[c] \in {"idle", "done"}
    /\ opsStarted < MaxOps
    /\ \E o \in Ops, p \in Paths, w \in Passwords :
          /\ o = "initialize" => nextSess + Opening < MaxSessions
          /\ o # "initialize" => w = <<>>
          /\ op' = [op EXCEPT ![c] = o]
          /\ path' = [path EXCEPT ![c] = p]
          /\ pw' = [pw EXCEPT ![c] = IF o = "initialize" THEN w ELSE <<>>]
          /\ pc' = [pc EXCEPT ![c] = FirstPc(o)]
    /\ hash' = [hash EXCEPT ![c] = NoHash]
    /\ held' = [held EXCEPT ![c] = NoSess]
    /\ saveRes' = [saveRes EXCEPT ![c] = NoResult]
    /\ result' = [result EXCEPT ![c] = NoResult]
    /\ engine' = [engine EXCEPT ![c] = {}]
    /\ opsStarted' = opsStarted + 1
    /\ UNCHANGED <<registry, lock, nextSess, lastWrite>>

Step(c, next) == pc' = [pc EXCEPT ![c] = next]
Return(c, r) == /\ result' = [result EXCEPT ![c] = r]
                /\ pc' = [pc EXCEPT ![c] = "done"]
Called(c, what) == engine' = [engine EXCEPT ![c] = @ \cup {what}]

\* ------------------------------------------------------------ initialize
\* let hash = (hash_function.0)(&password);
InitHash(c) ==
    /\ UNCHANGED <<evars, tvars>>
    /\ pc[c] = "i_hash"
    /\ \E h \in Hashes : hash' = [hash EXCEPT ![c] = h]
    /\ Step(c, "i_zero")
    /\ UNCHANGED <<registry, lock, op, path, pw, held, saveRes, result,
                   nextSess, opsStarted, engine, lastWrite>>

\* password.zeroize();
InitZeroize(c) ==
    /\ UNCHANGED <<evars, tvars>>
    /\ pc[c] = "i_zero"
    /\ pw' = [pw EXCEPT ![c] = Zeroize(pw[c])]
    /\ Step(c, "i_open")
    /\ UNCHANGED <<registry, lock, op, path, hash, held, saveRes, result,
                   nextSess, opsStarted, engine, lastWrite>>

\* Faulty initialize: a failed open evicts the entry of the path.
InitOpenEvicting(c) ==
    /\ UNCHANGED <<evars, tvars>>
    /\ pc[c] = "i_open"
    /\ Called(c, "open")
    /\ hash' = [hash EXCEPT ![c] = NoHash]
    /\ \/ /\ held' = [held EXCEPT ![c] = <<path[c], nextSess + 1>>]
          /\ nextSess' = nextSess + 1
          /\ Step(c, "i_lock")
          /\ UNCHANGED <<result, registry>>
       \/ /\ Return(c, "EngineError")
          /\ registry' = MapRemove(registry, path[c])
          /\ UNCHANGED <<held, nextSess>>
    /\ UNCHANGED <<lock, op, path, pw, saveRes, opsStarted, lastWrite>>

\* let stronghold = Stronghold::new(snapshot_path.clone(), hash)?;
\* The engine opens or creates the snapshot, or fails; no lock is held.
InitOpen(c) ==
    /\ UNCHANGED <<evars, tvars>>
    /\ pc[c] = "i_open"
    /\ Called(c, "open")
    /\ hash' = [hash EXCEPT ![c] = NoHash]
    /\ \/ /\ held' = [held EXCEPT ![c] = <<path[c], nextSess + 1>>]
          /\ nextSess' = nextSess + 1
          /\ Step(c, "i_lock")
          /\ UNCHANGED result
       \/ /\ Return(c, "EngineError")
          /\ UNCHANGED <<held, nextSess>>
    /\ UNCHANGED <<registry, lock, op, path, pw, saveRes, opsStarted,
                   lastWrite>>

\* collection.0.lock().unwrap().insert(snapshot_path, stronghold); Ok(())
\* The entry replaced, if any, is dropped.
InitInsert(c) ==
    /\ UNCHANGED <<evars, tvars>>
    /\ pc[c] = "i_lock"
    /\ lock = FREE
    /\ registry' = MapInsert(registry, path[c], held[c])
    /\ lastWrite' = [lastWrite EXCEPT ![path[c]] = held[c]]
    /\ held' = [held EXCEPT ![c] = NoSess]
    /\ Return(c, "Ok")
    /\ UNCHANGED <<lock, op, path, pw, hash, saveRes, nextSess, opsStarted,
                   engine>>

\* --------------------------------------------------------------- destroy
\* Faulty destroy: a missing Session is reported as not-initialized.
DestroyLockStrict(c) ==
    /\ UNCHANGED <<evars, tvars>>
    /\ pc[c] = "d_lock"
    /\ lock = FREE
    /\ IF MapHas(registry, path[c])
       THEN /\ held' = [held EXCEPT ![c] = MapGet(registry, path[c])]
            /\ registry' = MapRemove(registry, path[c])
            /\ lock' = c
            /\ Step(c, "d_io")
            /\ UNCHANGED result
       ELSE /\ Return(c, "NotInitialized")
            /\ UNCHANGED <<held, registry, lock>>
    /\ UNCHANGED <<op, path, pw, hash, saveRes, nextSess, opsStarted,
                   engine, lastWrite>>

\* Faulty destroy: the guard is dropped right after the removal.
DestroyLockReleasing(c) ==
    /\ UNCHANGED <<evars, tvars>>
    /\ pc[c] = "d_lock"
    /\ lock = FREE
    /\ IF MapHas(registry, path[c])
       THEN /\ held' = [held EXCEPT ![c] = MapGet(registry, path[c])]
            /\ registry' = MapRemove(registry, path[c])
            /\ Step(c, "d_io")
            /\ UNCHANGED result
       ELSE /\ Return(c, "Ok")
            /\ UNCHANGED <<held, registry>>
    /\ UNCHANGED <<lock, op, path, pw, hash, saveRes, nextSess, opsStarted,
                   engine, lastWrite>>

\* let mut collection = collection.0.lock().unwrap();
\* if let Some(stronghold) = collection.remove(&snapshot_path) { .. } Ok(())
DestroyLock(c) ==
    /\ UNCHANGED <<evars, tvars>>
    /\ pc[c] = "d_lock"
    /\ lock = FREE
    /\ IF MapHas(registry, path[c])
       THEN /\ held' = [held EXCEPT ![c] = MapGet(registry, path[c])]
            /\ registry' = MapRemove(registry, path[c])
            /\ lock' = c
            /\ Step(c, "d_io")
            /\ UNCHANGED result
       ELSE /\ Return(c, "Ok")
            /\ UNCHANGED <<held, registry, lock>>
    /\ UNCHANGED <<op, path, pw, hash, saveRes, nextSess, opsStarted,
                   engine, lastWrite>>

\* stronghold.save(): the engine flushes the snapshot; the guard is alive.
DestroySave(c) ==
    /\ UNCHANGED <<evars, tvars>>
    /\ pc[c] = "d_io"
    /\ lock = c
    /\ Called(c, "flush")
    /\ \E r \in {"Ok", "EngineError"} : saveRes' = [saveRes EXCEPT ![c] = r]
    /\ Step(c, "d_fin")
    /\ UNCHANGED <<registry, lock, op, path, pw, hash, held, result,
                   nextSess, opsStarted, lastWrite>>

\* Faulty destroy: the error is returned without the reinsertion.
DestroyFinishNoRollback(c) ==
    /\ UNCHANGED <<evars, tvars>>
    /\ pc[c] = "d_fin"
    /\ lock = c
    /\ Return(c, saveRes[c])
    /\ lastWrite' = [lastWrite EXCEPT ![path[c]] =
                        IF saveRes[c] = "Ok" THEN Removed ELSE @]
    /\ held' = [held EXCEPT ![c] = NoSess]
    /\ lock' = FREE
    /\ UNCHANGED <<registry, op, path, pw, hash, saveRes,
                   nextSess, opsStarted, engine>>

\* if let Err(e) = .. { collection.insert(snapshot_path, stronghold);
\* return Err(e); }  Ok(())   -- the guard is dropped on return.
DestroyFinish(c) ==
    /\ UNCHANGED <<evars, tvars>>
    /\ pc[c] = "d_fin"
    /\ lock = c
    /\ IF saveRes[c] = "EngineError"
       THEN /\ registry' = MapInsert(registry, path[c], held[c])
            /\ Return(c, "EngineError")
            /\ UNCHANGED lastWrite
       ELSE /\ lastWrite' = [lastWrite EXCEPT ![path[c]] = Removed]
            /\ Return(c, "Ok")
            /\ UNCHANGED registry
    /\ held' = [held EXCEPT ![c] = NoSess]
    /\ lock' = FREE
    /\ UNCHANGED <<op, path, pw, hash, saveRes, nextSess, opsStarted,
                   engine>>

\* ------------------------------------------------------------------ save
\* let collection = collection.0.lock().unwrap();
\* if let Some(stronghold) = collection.get(&snapshot_path) { .. } Ok(())
SaveLock(c) ==
    /\ UNCHANGED <<evars, tvars>>
    /\ pc[c] = "s_lock"
    /\ lock = FREE
    /\ IF MapHas(registry, path[c])
       THEN /\ held' = [held EXCEPT ![c] = MapGet(registry, path[c])]
            /\ lock' = c
            /\ Step(c, "s_io")
            /\ UNCHANGED result
       ELSE /\ Return(c, "Ok")
            /\ UNCHANGED <<held, lock>>
    /\ UNCHANGED <<registry, op, path, pw, hash, saveRes, nextSess,
                   opsStarted, engine, lastWrite>>

\* Faulty save: a flushed Session is removed from the map, as in destroy.
SaveFlushAndClose(c) ==
    /\ UNCHANGED <<evars, tvars>>
    /\ pc[c] = "s_io"
    /\ lock = c
    /\ Called(c, "flush")
    /\ \E r \in {"Ok", "EngineError"} :
          /\ saveRes' = [saveRes EXCEPT ![c] = r]
          /\ Return(c, r)
          /\ registry' = IF r = "Ok" THEN MapRemove(registry, path[c])
                                     ELSE registry
    /\ held' = [held EXCEPT ![c] = NoSess]
    /\ lock' = FREE
    /\ UNCHANGED <<op, path, pw, hash, nextSess, opsStarted, lastWrite>>

\* stronghold.save()?; Ok(())   -- the guard is dropped on return.
SaveFlush(c) ==
    /\ UNCHANGED <<evars, tvars>>
    /\ pc[c] = "s_io"
    /\ lock = c
    /\ Called(c, "flush")
    /\ \E r \in {"Ok", "EngineError"} :
          /\ saveRes' = [saveRes EXCEPT ![c] = r]
          /\ Return(c, r)
    /\ held' = [held EXCEPT ![c] = NoSess]
    /\ lock' = FREE
    /\ UNCHANGED <<registry, op, path, pw, hash, nextSess, opsStarted,
                   lastWrite>>

\* ------------------------------------------------- client-scoped operations
\* Faulty get_stronghold: no check that the path has an entry.
GetStrongholdOrDefault(c) ==
    /\ UNCHANGED <<evars, tvars>>
    /\ pc[c] = "g_lock"
    /\ op[c] \in StrongholdOps
    /\ lock = FREE
    /\ held' = [held EXCEPT ![c] = MapGet(registry, path[c])]
    /\ Step(c, "g_call")
    /\ UNCHANGED <<registry, lock, op, path, pw, hash, saveRes, result,
                   nextSess, opsStarted, engine, lastWrite>>

\* get_stronghold: lookup under the lock, clone of the engine handle.
GetStronghold(c) ==
    /\ UNCHANGED <<evars, tvars>>
    /\ pc[c] = "g_lock"
    /\ op[c] \in StrongholdOps
    /\ lock = FREE
    /\ IF MapHas(registry, path[c])
       THEN /\ held' = [held EXCEPT ![c] = MapGet(registry, path[c])]
            /\ Step(c, "g_call")
            /\ UNCHANGED result
       ELSE /\ Return(c, "NotInitialized")
            /\ UNCHANGED held
    /\ UNCHANGED <<registry, lock, op, path, pw, hash, saveRes, nextSess,
                   opsStarted, engine, lastWrite>>

\* Faulty get_client: the client of any registered Session is taken.
GetClientAnyEntry(c) ==
    /\ UNCHANGED <<evars, tvars>>
    /\ pc[c] = "g_lock"
    /\ op[c] \in ClientOps
    /\ lock = FREE
    /\ IF registry # {}
       THEN /\ Called(c, "get_client")
            /\ \/ /\ \E e \in registry : held' = [held EXCEPT ![c] = e[2]]
                  /\ Step(c, "g_call")
                  /\ UNCHANGED result
               \/ /\ Return(c, "EngineError")
                  /\ UNCHANGED held
       ELSE /\ Return(c, "NotInitialized")
            /\ UNCHANGED <<held, engine>>
    /\ UNCHANGED <<registry, lock, op, path, pw, hash, saveRes, nextSess,
                   opsStarted, lastWrite>>

\* get_client: lookup under the lock and stronghold.get_client(client),
\* which fails when the client was neither created nor loaded.
GetClient(c) ==
    /\ UNCHANGED <<evars, tvars>>
    /\ pc[c] = "g_lock"
    /\ op[c] \in ClientOps
    /\ lock = FREE
    /\ IF MapHas(registry, path[c])
       THEN /\ Called(c, "get_client")
            /\ \/ /\ held' = [held EXCEPT ![c] = MapGet(registry, path[c])]
                  /\ Step(c, "g_call")
                  /\ UNCHANGED result
               \/ /\ Return(c, "EngineError")
                  /\ UNCHANGED held
       ELSE /\ Return(c, "NotInitialized")
            /\ UNCHANGED <<held, engine>>
    /\ UNCHANGED <<registry, lock, op, path, pw, hash, saveRes, nextSess,
                   opsStarted, lastWrite>>

\* The engine call on the cloned handle or client, made without the lock:
\* stronghold.create_client / load_client, client.store() / vault() /
\* execute_procedure.
EngineCall(c) ==
    /\ UNCHANGED <<evars, tvars>>
    /\ pc[c] = "g_call"
    /\ Called(c, "call")
    /\ \E r \in {"Ok", "EngineError"} : Return(c, r)
    /\ held' = [held EXCEPT ![c] = NoSess]
    /\ UNCHANGED <<registry, lock, op, path, pw, hash, saveRes, nextSess,
                   opsStarted, lastWrite>>

\* ============================================================ Tagged Value
\* BytesDto: <<"Text", s>> with s a string (its code points) or
\* <<"Raw", b>> with b a byte sequence.
\* The text "\u00e9" (code point 233) and its UTF-8 bytes name the same
\* client and the same vault; "x" and the byte 120 name the same record.
ClientDtos == {<<"Text", <<233>>>>, <<"Raw", <<195, 169>>>>}
VaultDtos == {<<"Text", <<233>>>>, <<"Raw", <<195, 169>>>>}
RecordDtos == {<<"Text", <<120>>>>, <<"Raw", <<120>>>>, <<"Raw", <<121>>>>}
Secrets == {<<1>>, <<2>>}
StoreKeys == {<<120>>, <<233>>}
Lifetimes == {"none", "some"}
NoDto == <<"None", <<>>>>

\* str::as_bytes: the UTF-8 encoding of a string (code points below 2048).
Utf8Char(cp) == IF cp < 128 THEN <<cp>>
                ELSE <<192 + (cp \div 64), 128 + (cp % 64)>>

RECURSIVE Utf8(_)
Utf8(s) == IF s = <<>> THEN <<>> ELSE Utf8Char(Head(s)) \o Utf8(Tail(s))

\* Faulty conversion: one byte per code point.
BytesOfCodePoints(b) == b[2]

\* AsRef<[u8]> for BytesDto and From<BytesDto> for Vec<u8>.
BytesOf(b) == IF b[1] = "Text" THEN Utf8(b[2]) ELSE b[2]

\* Faulty location: vault and record exchanged.
LocationGenericSwapped(v, r) == <<"generic", BytesOf(r), BytesOf(v)>>

\* Location::generic(vault, record) and Location::counter(vault, counter),
\* both taking the vault and the record as Into<Vec<u8>>.
LocationGeneric(v, r) == <<"generic", BytesOf(v), BytesOf(r)>>
LocationCounter(v, n) == <<"counter", BytesOf(v), n>>

\* Option<T>
None == <<"None", <<>>>>
Some(x) == <<"Some", x>>

\* No facade call was made yet.
NoCall == [op |-> "none", path |-> "-", client |-> NoDto, vault |-> NoDto, record |-> NoDto,
           key |-> <<>>, value |-> <<>>, lifetime |-> "none",
           res |-> NoResult, out |-> None]

EngineIdle ==
    /\ clients = {}
    /\ vaultDb = {}
    /\ storeDb = {}
    /\ last = NoCall
    /\ wroteAs = "none"

NoReq == [tag |-> "none"]

TranslatorIdle ==
    /\ req = NoReq
    /\ stage = "idle"
    /\ dto = NoReq
    /\ proc = NoReq
    /\ handed = <<>>

\* ------------------------------------------------------------------ Next
Next ==
    \E c \in Callers :
        \/ Call(c)
        \/ InitHash(c)
        \/ InitZeroize(c)
        \/ InitOpen(c)
        \/ InitInsert(c)
        \/ DestroyLock(c)
        \/ DestroySave(c)
        \/ DestroyFinish(c)
        \/ SaveLock(c)
        \/ SaveFlush(c)
        \/ GetStronghold(c)
        \/ GetClient(c)
        \/ EngineCall(c)

\* The registry after construction; no facade call, no procedure request.
RegistryInit == Init /\ EngineIdle /\ TranslatorIdle

Spec == RegistryInit /\ [][Next]_allvars

\* ============================================== store and vault facades
\* The registry once initialize("p") has completed and nobody is calling.
SessionOpen ==
    /\ registry = {<<"p", <<"p", 1>>>>}
    /\ lock = FREE
    /\ pc = [c \in Callers |-> "idle"]
    /\ op = [c \in Callers |-> "none"]
    /\ path = [c \in Callers |-> "p"]
    /\ pw = [c \in Callers |-> <<>>]
    /\ hash = [c \in Callers |-> NoHash]
    /\ held = [c \in Callers |-> NoSess]
    /\ saveRes = [c \in Callers |-> NoResult]
    /\ result = [c \in Callers |-> NoResult]
    /\ nextSess = 1
    /\ opsStarted = 0
    /\ engine = [c \in Callers |-> {}]
    /\ lastWrite = [p \in Paths |-> IF p = "p" THEN <<"p", 1>> ELSE Never]

\* Engine: the vault of a client maps a location to the secret written last.
VaultWrite(db, c, loc, s) ==
    {e \in db : ~(e[1] = c /\ e[2] = loc)} \cup {<<c, loc, s>>}

\* Engine: reading through a vault handle resolves the record path against
\* the handle's vault path; a location never written is an error.
VaultRead(db, c, vp, rp) ==
    LET hits == {e \in db : e[1] = c /\ e[2] = <<"generic", vp, rp>>}
    IN  IF hits = {} THEN <<"EngineError", None>>
        ELSE <<"Ok", Some((CHOOSE e \in hits : TRUE)[3])>>

\* Engine: deleting through a vault handle revokes the record, if any.
VaultDelete(db, c, vp, rp) ==
    {e \in db : ~(e[1] = c /\ e[2] = <<"generic", vp, rp>>)}

\* Engine: the store of a client maps a key to a value and its lifetime.
StoreInsert(db, c, k, val, lt) ==
    {e \in db : ~(e[1] = c /\ e[2] = k)} \cup {<<c, k, val, lt>>}

StoreGet(db, c, k) ==
    LET hits == {e \in db : e[1] = c /\ e[2] = k}
    IN  IF hits = {} THEN None ELSE Some((CHOOSE e \in hits : TRUE)[3])

StoreDelete(db, c, k) == {e \in db : ~(e[1] = c /\ e[2] = k)}

\* get_stronghold, as the result the caller sees.
StrongholdLookup(p) == IF MapHas(registry, p) THEN "Ok" ELSE "NotInitialized"

\* get_client: the Session of the path, then the engine's client of it.
ClientLookup(p, cl) ==
    IF ~MapHas(registry, p) THEN "NotInitialized"
    ELSE IF BytesOf(cl) \in clients THEN "Ok" ELSE "EngineError"

\* Which forms the three keys of a call have.
FormOf(cl, v, r) ==
    IF {cl[1], v[1], r[1]} = {"Text"} THEN "text"
    ELSE IF {cl[1], v[1], r[1]} = {"Raw"} THEN "raw" ELSE "mixed"

OnlyLast == UNCHANGED <<vars, tvars, clients, vaultDb, storeDb, wroteAs>>

\* create_client / load_client: get_stronghold, then the engine call.
CreateClient(p, cl) ==
    LET call == [NoCall EXCEPT !.op = "create_client", !.path = p,
                               !.client = cl]
    IN  /\ lock = FREE
        /\ IF StrongholdLookup(p) = "Ok" /\ BytesOf(cl) \notin clients
           THEN /\ clients' = clients \cup {BytesOf(cl)}
                /\ last' = [call EXCEPT !.res = "Ok"]
           ELSE /\ last' = [call EXCEPT !.res =
                               IF StrongholdLookup(p) = "Ok"
                               THEN "EngineError" ELSE StrongholdLookup(p)]
                /\ UNCHANGED clients
        /\ UNCHANGED <<vars, tvars, vaultDb, storeDb, wroteAs>>

LoadClient(p, cl) ==
    LET call == [NoCall EXCEPT !.op = "load_client", !.path = p,
                               !.client = cl]
    IN  /\ lock = FREE
        /\ IF StrongholdLookup(p) = "Ok"
           THEN \/ /\ clients' = clients \cup {BytesOf(cl)}
                   /\ last' = [call EXCEPT !.res = "Ok"]
                \/ /\ last' = [call EXCEPT !.res = "EngineError"]
                   /\ UNCHANGED clients
           ELSE /\ last' = [call EXCEPT !.res = StrongholdLookup(p)]
                /\ UNCHANGED clients
        /\ UNCHANGED <<vars, tvars, vaultDb, storeDb, wroteAs>>

\* save_secret: client.vault(&vault).write_secret(
\*     Location::generic(vault, record_path), Zeroizing::new(secret))
SaveSecret(p, cl, v, r, s) ==
    LET call == [NoCall EXCEPT !.op = "save_secret", !.path = p,
                               !.client = cl, !.vault = v, !.record = r,
                               !.value = s]
    IN  /\ lock = FREE
        /\ IF ClientLookup(p, cl) = "Ok"
           THEN \/ /\ vaultDb' = VaultWrite(vaultDb, BytesOf(cl),
                                            LocationGeneric(v, r), s)
                   /\ wroteAs' = FormOf(cl, v, r)
                   /\ last' = [call EXCEPT !.res = "Ok"]
                \/ /\ last' = [call EXCEPT !.res = "EngineError"]
                   /\ UNCHANGED <<vaultDb, wroteAs>>
           ELSE /\ last' = [call EXCEPT !.res = ClientLookup(p, cl)]
                /\ UNCHANGED <<vaultDb, wroteAs>>
        /\ UNCHANGED <<vars, tvars, clients, storeDb>>

\* unsafe_get_secret: client.vault(&vault).read_secret(record_path)
GetSecretResult(p, cl, v, r) ==
    IF ClientLookup(p, cl) = "Ok"
    THEN VaultRead(vaultDb, BytesOf(cl), BytesOf(v), BytesOf(r))
    ELSE <<ClientLookup(p, cl), None>>

UnsafeGetSecret(p, cl, v, r) ==
    LET call == [NoCall EXCEPT !.op = "unsafe_get_secret", !.path = p,
                               !.client = cl, !.vault = v, !.record = r]
    IN  /\ lock = FREE
        /\ last' = [call EXCEPT !.res = GetSecretResult(p, cl, v, r)[1],
                                !.out = GetSecretResult(p, cl, v, r)[2]]
        /\ OnlyLast

\* remove_secret: client.vault(vault).delete_secret(record_path).map(|_| ())
RemoveSecret(p, cl, v, r) ==
    LET call == [NoCall EXCEPT !.op = "remove_secret", !.path = p,
                               !.client = cl, !.vault = v, !.record = r]
    IN  /\ lock = FREE
        /\ last' = [call EXCEPT !.res = ClientLookup(p, cl)]
        /\ vaultDb' = IF ClientLookup(p, cl) = "Ok"
                      THEN VaultDelete(vaultDb, BytesOf(cl), BytesOf(v),
                                       BytesOf(r))
                      ELSE vaultDb
        /\ UNCHANGED <<vars, tvars, clients, storeDb, wroteAs>>

VaultNext ==
    \/ \E p \in Paths, cl \in ClientDtos : CreateClient(p, cl)
    \/ \E p \in Paths, cl \in ClientDtos : LoadClient(p, cl)
    \/ \E p \in Paths, cl \in ClientDtos, v \in VaultDtos,
          r \in RecordDtos, s \in Secrets : SaveSecret(p, cl, v, r, s)
    \/ \E p \in Paths, cl \in ClientDtos, v \in VaultDtos,
          r \in RecordDtos : UnsafeGetSecret(p, cl, v, r)
    \/ \E p \in Paths, cl \in ClientDtos, v \in VaultDtos,
          r \in RecordDtos : RemoveSecret(p, cl, v, r)

\* An open Session for "p", an empty engine state, no call made yet.
FacadeInit == SessionOpen /\ EngineIdle /\ TranslatorIdle

VaultSpec == FacadeInit /\ [][VaultNext]_allvars

\* Faulty save_store_record: key and value exchanged (both are Vec<u8>).
SaveStoreRecordSwapped(p, cl, k, val, lt) ==
    LET call == [NoCall EXCEPT !.op = "save_store_record", !.path = p,
                               !.client = cl, !.key = k, !.value = val,
                               !.lifetime = lt]
    IN  /\ lock = FREE
        /\ IF ClientLookup(p, cl) = "Ok"
           THEN /\ storeDb' = StoreInsert(storeDb, BytesOf(cl), val,
                                          Utf8(k), lt)
                /\ last' = [call EXCEPT !.res = "Ok",
                               !.out = StoreGet(storeDb, BytesOf(cl), val)]
           ELSE /\ last' = [call EXCEPT !.res = ClientLookup(p, cl)]
                /\ UNCHANGED storeDb
        /\ UNCHANGED <<vars, tvars, clients, vaultDb, wroteAs>>

\* save_store_record:
\* client.store().insert(key.as_bytes().to_vec(), value, lifetime)
SaveStoreRecord(p, cl, k, val, lt) ==
    LET call == [NoCall EXCEPT !.op = "save_store_record", !.path = p,
                               !.client = cl, !.key = k, !.value = val,
                               !.lifetime = lt]
    IN  /\ lock = FREE
        /\ IF ClientLookup(p, cl) = "Ok"
           THEN /\ storeDb' = StoreInsert(storeDb, BytesOf(cl), Utf8(k),
                                          val, lt)
                /\ last' = [call EXCEPT !.res = "Ok",
                               !.out = StoreGet(storeDb, BytesOf(cl), Utf8(k))]
           ELSE /\ last' = [call EXCEPT !.res = ClientLookup(p, cl)]
                /\ UNCHANGED storeDb
        /\ UNCHANGED <<vars, tvars, clients, vaultDb, wroteAs>>

\* get_store_record: client.store().get(key.as_ref())
GetStoreResult(p, cl, k) ==
    IF ClientLookup(p, cl) = "Ok"
    THEN <<"Ok", StoreGet(storeDb, BytesOf(cl), Utf8(k))>>
    ELSE <<ClientLookup(p, cl), None>>

GetStoreRecord(p, cl, k) ==
    LET call == [NoCall EXCEPT !.op = "get_store_record", !.path = p,
                               !.client = cl, !.key = k]
    IN  /\ lock = FREE
        /\ last' = [call EXCEPT !.res = GetStoreResult(p, cl, k)[1],
                                !.out = GetStoreResult(p, cl, k)[2]]
        /\ OnlyLast

\* remove_store_record: client.store().delete(key.as_ref())
RemoveStoreRecord(p, cl, k) ==
    LET call == [NoCall EXCEPT !.op = "remove_store_record", !.path = p,
                               !.client = cl, !.key = k]
    IN  /\ lock = FREE
        /\ last' = [call EXCEPT !.res = GetStoreResult(p, cl, k)[1],
                                !.out = GetStoreResult(p, cl, k)[2]]
        /\ storeDb' = IF ClientLookup(p, cl) = "Ok"
                      THEN StoreDelete(storeDb, BytesOf(cl), Utf8(k))
                      ELSE storeDb
        /\ UNCHANGED <<vars, tvars, clients, vaultDb, wroteAs>>

\* Engine: the lifetime of a record runs out; the record is gone.
Expire ==
    /\ \E e \in storeDb : e[4] = "some" /\ storeDb' = storeDb \ {e}
    /\ UNCHANGED <<vars, tvars, clients, vaultDb, last, wroteAs>>

StoreNext ==
    \/ \E p \in Paths, cl \in ClientDtos : CreateClient(p, cl)
    \/ \E p \in Paths, cl \in ClientDtos : LoadClient(p, cl)
    \/ \E p \in Paths, cl \in ClientDtos, k \in StoreKeys, val \in Secrets,
          lt \in Lifetimes : SaveStoreRecord(p, cl, k, val, lt)
    \/ \E p \in Paths, cl \in ClientDtos, k \in StoreKeys :
          GetStoreRecord(p, cl, k)
    \/ \E p \in Paths, cl \in ClientDtos, k \in StoreKeys :
          RemoveStoreRecord(p, cl, k)
    \/ Expire

StoreSpec == FacadeInit /\ [][StoreNext]_allvars

\* ================================================== procedure requests
\* A string is the sequence of its characters.
Ed25519Str == <<"e", "d", "2", "5", "5", "1", "9">>
X25519Str == <<"x", "2", "5", "5", "1", "9">>
Curve25519Str == <<"c", "u", "r", "v", "e", "2", "5", "5", "1", "9">>

\* char::to_uppercase on the characters used here.
ToUpperChar(ch) ==
    CASE ch = "e" -> "E" [] ch = "d" -> "D" [] ch = "x" -> "X"
      [] ch = "c" -> "C" [] ch = "u" -> "U" [] ch = "r" -> "R"
      [] ch = "v" -> "V" [] OTHER -> ch

\* char::to_lowercase on the characters used here.
ToLowerChar(ch) ==
    CASE ch = "E" -> "e" [] ch = "D" -> "d" [] ch = "X" -> "x"
      [] ch = "C" -> "c" [] ch = "U" -> "u" [] ch = "R" -> "r"
      [] ch = "V" -> "v" [] OTHER -> ch

\* Faulty normalisation: the string is matched as written.
KeepCase(s) == s

\* str::to_lowercase
ToLowercase(s) == [i \in DOMAIN s |-> ToLowerChar(s[i])]

\* Every spelling of w in upper and lower case.
Spellings(w) ==
    {[i \in 1..Len(w) |-> IF i \in U THEN ToUpperChar(w[i]) ELSE w[i]] :
        U \in SUBSET (1..Len(w))}

\* The key-type strings a request may carry.
KeyTypeStrings ==
    Spellings(Ed25519Str) \cup Spellings(X25519Str)
    \cup {Curve25519Str, <<>>, SubSeq(Ed25519Str, 1, 6),
          Ed25519Str \o <<"9">>, X25519Str \o <<" ">>,
          <<"E", "D">> \o X25519Str, Tail(Ed25519Str)}

\* KeyTypeVisitor::visit_str
ParseKeyType(s) ==
    CASE ToLowercase(s) = Ed25519Str -> <<"Ok", "Ed25519">>
      [] ToLowercase(s) = X25519Str -> <<"Ok", "X25519">>
      [] OTHER -> <<"Err", "unknown key type">>

\* LocationDto: <<"Generic", vault, record>> or <<"Counter", vault, counter>>
LocationDtos ==
    {<<"Generic", <<"Text", <<233>>>>, <<"Text", <<120>>>>>>,
     <<"Generic", <<"Raw", <<195, 169>>>>, <<"Raw", <<121>>>>>>,
     <<"Counter", <<"Text", <<233>>>>, 1>>}

\* impl From<LocationDto> for Location
ResolveLocation(l) ==
    IF l[1] = "Generic" THEN LocationGeneric(l[2], l[3])
    ELSE LocationCounter(l[2], l[3])

\* impl From<Slip10DeriveInputDto> for Slip10DeriveInput
ResolveInput(i) == <<i[1], ResolveLocation(i[2])>>

Opt(S) == {None} \cup {Some(x) : x \in S}

\* passphrase.unwrap_or("".to_string())
UnwrapOrEmpty(o) == IF o = None THEN "" ELSE o[2]

\* Faulty conversion: one byte per character of the message.
MsgCodePoints(msg) == msg

\* msg.as_bytes().to_vec()
MsgBytes(msg) == Utf8(msg)

Msgs == {<<120>>, <<233, 120>>}
Fees == {0, 1}

\* The requests as they arrive: the tag and the payload of a ProcedureDto,
\* the key type of a PublicKey request still a string.
Requests ==
    {[tag |-> "SLIP10Generate", output |-> o, size_bytes |-> n] :
        o \in LocationDtos, n \in Opt({"32"})}
    \cup {[tag |-> "SLIP10Derive", curve |-> cv, chain |-> ch,
           input |-> <<k, l>>, output |-> o, network |-> "testnet3"] :
        cv \in {"Ed25519", "Secp256k1"}, ch \in {<<>>, <<44, 0>>},
        k \in {"Seed", "Key"}, l \in LocationDtos, o \in LocationDtos}
    \cup {[tag |-> "BIP39Recover", mnemonic |-> "abandon", passphrase |-> ph,
           output |-> o] :
        ph \in Opt({"", "pw"}), o \in LocationDtos}
    \cup {[tag |-> "BIP39Generate", passphrase |-> ph, output |-> o] :
        ph \in Opt({"", "pw"}), o \in LocationDtos}
    \cup {[tag |-> "PublicKey", ty |-> s, private_key |-> l] :
        s \in KeyTypeStrings, l \in LocationDtos}
    \cup {[tag |-> "Ed25519Sign", private_key |-> l, msg |-> m] :
        l \in LocationDtos, m \in Msgs}
    \cup {[tag |-> "AleoSign", private_key |-> l, msg |-> m, ext |-> x] :
        l \in LocationDtos, m \in Msgs, x \in {"id1", "id2"}}
    \cup {[tag |-> "GetAleoAddress", private_key |-> l, ext |-> x] :
        l \in LocationDtos, x \in {"id1", "id2"}}
    \cup {[tag |-> "GetAleoViewKey", private_key |-> l,
           _network |-> "PhantomData"] : l \in LocationDtos}
    \cup {[tag |-> "AleoSignRequest", program_id |-> "credits.aleo",
           function_name |-> fn, inputs |-> in, input_types |-> <<"u64">>,
           root_tvk |-> tvk, is_root |-> b, private_key |-> l] :
        fn \in {"transfer", "mint"}, in \in {<<>>, <<"1u64">>},
        tvk \in Opt({"tvk"}), b \in BOOLEAN, l \in LocationDtos}
    \cup {[tag |-> "AleoAuthorize", private_key |-> l,
           program_id |-> "credits.aleo", function_name |-> fn,
           inputs |-> in] :
        l \in LocationDtos, fn \in {"transfer", "mint"},
        in \in {<<>>, <<"1u64">>}}
    \cup {[tag |-> "AleoAuthorizeFeePublic", private_key |-> l,
           base_fee_in_microcredits |-> bf,
           priority_fee_in_microcredits |-> pf,
           deployment_or_execution_id |-> "id"] :
        l \in LocationDtos, bf \in Fees, pf \in Fees}
    \cup {[tag |-> "AleoAuthorizeFeePrivate", private_key |-> l,
           credits |-> "record", base_fee_in_microcredits |-> bf,
           priority_fee_in_microcredits |-> pf,
           deployment_or_execution_id |-> "id"] :
        l \in LocationDtos, bf \in Fees, pf \in Fees}
    \cup {[tag |-> "AleoExecute", private_key |-> l,
           program_id |-> "credits.aleo", function_name |-> fn,
           inputs |-> in, fee_record |-> fr,
           priority_fee_in_microcredits |-> pf, base_url |-> "url"] :
        l \in LocationDtos, fn \in {"transfer", "mint"},
        in \in {<<>>, <<"1u64">>}, fr \in Opt({"record"}), pf \in Fees}

\* impl From<ProcedureDto<N>> for StrongholdProcedure<N>
Translate(d) ==
    CASE d.tag = "SLIP10Generate" ->
            [kind |-> "Slip10Generate", output |-> ResolveLocation(d.output),
             size_bytes |-> d.size_bytes]
      [] d.tag = "SLIP10Derive" ->
            [kind |-> "Slip10Derive", curve |-> d.curve, chain |-> d.chain,
             input |-> ResolveInput(d.input),
             output |-> ResolveLocation(d.output), network |-> d.network]
      [] d.tag = "BIP39Recover" ->
            [kind |-> "BIP39Recover", mnemonic |-> d.mnemonic,
             passphrase |-> UnwrapOrEmpty(d.passphrase),
             output |-> ResolveLocation(d.output)]
      [] d.tag = "BIP39Generate" ->
            [kind |-> "BIP39Generate",
             passphrase |-> UnwrapOrEmpty(d.passphrase),
             output |-> ResolveLocation(d.output), language |-> "English"]
      [] d.tag = "PublicKey" ->
            [kind |-> "PublicKey", ty |-> d.ty,
             private_key |-> ResolveLocation(d.private_key)]
      [] d.tag = "Ed25519Sign" ->
            [kind |-> "Ed25519Sign",
             private_key |-> ResolveLocation(d.private_key),
             msg |-> MsgBytes(d.msg)]
      [] d.tag = "AleoSign" ->
            [kind |-> "AleoSign",
             private_key |-> ResolveLocation(d.private_key),
             msg |-> MsgBytes(d.msg), ext |-> d.ext]
      [] d.tag = "GetAleoAddress" ->
            [kind |-> "GetAleoAddress",
             private_key |-> ResolveLocation(d.private_key), ext |-> d.ext]
      [] d.tag = "GetAleoViewKey" ->
            [kind |-> "GetAleoViewKey",
             private_key |-> ResolveLocation(d.private_key),
             _network |-> d._network]
      [] d.tag = "AleoSignRequest" ->
            [kind |-> "AleoSignRequest", program_id |-> d.program_id,
             function_name |-> d.function_name, inputs |-> d.inputs,
             input_types |-> d.input_types, root_tvk |-> d.root_tvk,
             is_root |-> d.is_root,
             private_key |-> ResolveLocation(d.private_key)]
      [] d.tag = "AleoAuthorize" ->
            [kind |-> "AleoAuthorize",
             private_key |-> ResolveLocation(d.private_key),
             program_id |-> d.program_id,
             function_name |-> d.function_name, inputs |-> d.inputs]
      [] d.tag = "AleoAuthorizeFeePublic" ->
            [kind |-> "AleoAuthorizeFeePublic",
             private_key |-> ResolveLocation(d.private_key),
             base_fee_in_microcredits |-> d.base_fee_in_microcredits,
             priority_fee_in_microcredits |-> d.priority_fee_in_microcredits,
             deployment_or_execution_id |-> d.deployment_or_execution_id]
      [] d.tag = "AleoAuthorizeFeePrivate" ->
            [kind |-> "AleoAuthorizeFeePrivate",
             private_key |-> ResolveLocation(d.private_key),
             credits |-> d.credits,
             base_fee_in_microcredits |-> d.base_fee_in_microcredits,
             priority_fee_in_microcredits |-> d.priority_fee_in_microcredits,
             deployment_or_execution_id |-> d.deployment_or_execution_id]
      [] d.tag = "AleoExecute" ->
            [kind |-> "AleoExecute",
             private_key |-> ResolveLocation(d.private_key),
             program_id |-> d.program_id,
             function_name |-> d.function_name, inputs |-> d.inputs,
             fee_record |-> d.fee_record,
             priority_fee_in_microcredits |-> d.priority_fee_in_microcredits,
             base_url |-> d.base_url]

\* The clients a request may name; the client "x" was never created.
ProcClients == ClientDtos \cup {<<"Text", <<120>>>>}

\* A request arrives at the command layer.
Receive(r) ==
    /\ stage = "idle"
    /\ req' = r
    /\ stage' = "received"
    /\ UNCHANGED <<vars, evars, dto, proc, handed>>

\* serde: the payload becomes a ProcedureDto, the key type of a PublicKey
\* request through KeyType::deserialize; an error rejects the request.
Deserialize ==
    /\ stage = "received"
    /\ IF req.tag = "PublicKey"
       THEN IF ParseKeyType(req.ty)[1] = "Ok"
            THEN /\ dto' = [req EXCEPT !.ty = ParseKeyType(req.ty)[2]]
                 /\ stage' = "parsed"
            ELSE /\ dto' = [tag |-> "error", msg |-> ParseKeyType(req.ty)[2]]
                 /\ stage' = "rejected"
       ELSE /\ dto' = req
            /\ stage' = "parsed"
    /\ UNCHANGED <<vars, evars, req, proc, handed>>

\* execute_procedure: get_client, then
\* client.execute_procedure(StrongholdProcedure::from(procedure))
ExecuteProcedure(p, cl) ==
    /\ stage = "parsed"
    /\ lock = FREE
    /\ IF ClientLookup(p, cl) = "Ok"
       THEN /\ proc' = Translate(dto)
            /\ handed' = Append(handed, Translate(dto))
            /\ stage' = "executed"
       ELSE /\ stage' = ClientLookup(p, cl)
            /\ UNCHANGED <<proc, handed>>
    /\ UNCHANGED <<vars, evars, req, dto>>

ProcNext ==
    \/ \E r \in Requests : Receive(r)
    \/ Deserialize
    \/ \E p \in Paths, cl \in ProcClients : ExecuteProcedure(p, cl)

\* An open Session for "p" with the client "é"; no request yet.
ProcInit ==
    /\ SessionOpen
    /\ clients = {<<195, 169>>}
    /\ vaultDb = {}
    /\ storeDb = {}
    /\ last = NoCall
    /\ wroteAs = "none"
    /\ TranslatorIdle

ProcSpec == ProcInit /\ [][ProcNext]_allvars

\* ====================================================================
\* Sessions that are alive: registered, or owned / borrowed / cloned by a
\* caller (opened and not yet inserted, removed and not yet dropped, cloned
\* by get_stronghold).
Live == ({e[2] : e \in registry} \cup {held[c] : c \in Callers}) \ {NoSess}

\* The caller is blocked in lock(): the Mutex is held by somebody else.
LockPcs == {"i_lock", "d_lock", "s_lock", "g_lock"}
Waiting(c) == pc[c] \in LockPcs /\ lock \notin {FREE, c}

\* The caller is inside an engine call that does snapshot I/O.
InEngineIO(c) == pc[c] \in {"i_open", "d_io", "s_io"}

EntriesOf(m, p) == {e \in m : e[1] = p}

\* --------------------------------------------------------------------
\* C1: when stronghold.save() fails inside destroy(p), destroy returns the
\* engine error and, on return, the registry maps p to the very Session
\* that destroy found there (rollback), with the lock released, so a later
\* save(p) or destroy(p) finds it.
C1_DestroyRollback ==
    [][\A c \in Callers :
        /\ (pc[c] = "d_lock" /\ pc'[c] = "d_io")
              => /\ held'[c] = MapGet(registry, path[c])
                 /\ held'[c] # NoSess
        /\ (pc[c] = "d_fin" /\ saveRes[c] = "EngineError" /\ pc'[c] = "done")
              => /\ result'[c] = "EngineError"
                 /\ EntriesOf(registry', path[c]) = {<<path[c], held[c]>>}
                 /\ lock' = FREE]_vars

\* A destroy(p) failed and returned, and afterwards another caller's save(p)
\* or destroy(p) found the Session.
C1_Witness ==
    \E c, d \in Callers :
        /\ c # d
        /\ pc[c] = "done" /\ op[c] = "destroy" /\ result[c] = "EngineError"
        /\ path[d] = path[c]
        /\ op[d] \in {"save", "destroy"}
        /\ pc[d] \in {"s_io", "d_io"}
        /\ held[d] = lastWrite[path[c]]

\* --------------------------------------------------------------------
\* C2 (as stated): at most one live Session per SnapshotPath.
C2_OneLiveSessionPerPath ==
    \A s1, s2 \in Live : SessPath(s1) = SessPath(s2) => s1 = s2

\* C2 (amended): the registry holds at most one Session per SnapshotPath,
\* and it is a Session opened for that path.
C2_OneEntryPerPath ==
    \A e1, e2 \in registry :
        /\ SessPath(e1[2]) = e1[1]
        /\ e1[1] = e2[1] => e1 = e2

\* An initialize(p) has opened a second Session while another Session is
\* registered under p.
C2_Witness ==
    \E c \in Callers :
        /\ pc[c] = "i_lock"
        /\ MapHas(registry, path[c])
        /\ MapGet(registry, path[c]) # held[c]

\* --------------------------------------------------------------------
\* C3 (as stated): on a path never initialized every operation other than
\* initialize fails with not-initialized.
C3_AllFailNotInitialized ==
    \A c \in Callers :
        (pc[c] = "done" /\ op[c] # "initialize" /\ lastWrite[path[c]] = Never)
            => result[c] = "NotInitialized"

\* C3 (amended): on a path never initialized every client-scoped operation
\* fails with not-initialized and makes no engine call; destroy and save
\* return success without an engine call.
C3_NeverInitialized ==
    \A c \in Callers :
        (pc[c] = "done" /\ lastWrite[path[c]] = Never)
            => /\ op[c] \in ClientScopedOps
                    => result[c] = "NotInitialized" /\ engine[c] = {}
               /\ op[c] \in {"destroy", "save"}
                    => result[c] = "Ok" /\ engine[c] = {}

\* A client-scoped operation failed on a path never initialized while the
\* other path has a Session.
C3_Witness ==
    \E c \in Callers :
        /\ pc[c] = "done" /\ op[c] \in ClientOps
        /\ lastWrite[path[c]] = Never
        /\ result[c] = "NotInitialized"
        /\ registry # {}

\* --------------------------------------------------------------------
\* C4: destroy(p) with no Session registered under p returns Ok, makes no
\* engine call and leaves the registry unchanged.
C4_DestroyNoSession ==
    [][\A c \in Callers :
        (pc[c] = "d_lock" /\ pc'[c] # "d_lock" /\ ~MapHas(registry, path[c]))
            => /\ pc'[c] = "done"
               /\ result'[c] = "Ok"
               /\ engine'[c] = {}
               /\ registry' = registry
               /\ lock' = FREE]_vars

\* destroy(p) returned Ok without an engine call while the registry holds
\* the Session of another path.
C4_Witness ==
    \E c \in Callers :
        /\ pc[c] = "done" /\ op[c] = "destroy"
        /\ result[c] = "Ok" /\ engine[c] = {}
        /\ lastWrite[path[c]] = Never
        /\ \E e \in registry : e[1] # path[c]

\* --------------------------------------------------------------------
\* C5: save(p) never changes the registry; with a Session registered it
\* flushes that Session and returns the engine's outcome, the Session
\* staying registered; with none it returns Ok without an engine call.
C5_SaveKeepsRegistry ==
    /\ [](\A c \in Callers :
            pc[c] = "s_io" => MapGet(registry, path[c]) = held[c])
    /\ [][\A c \in Callers :
        /\ (pc[c] = "s_lock" /\ pc'[c] # "s_lock")
              => /\ registry' = registry
                 /\ engine'[c] = {}
                 /\ IF MapHas(registry, path[c])
                    THEN pc'[c] = "s_io" /\ held'[c] = MapGet(registry, path[c])
                    ELSE pc'[c] = "done" /\ result'[c] = "Ok"
        /\ (pc[c] = "s_io" /\ pc'[c] # "s_io")
              => /\ registry' = registry
                 /\ engine'[c] = {"flush"}
                 /\ pc'[c] = "done"
                 /\ result'[c] = saveRes'[c]
                 /\ result'[c] \in {"Ok", "EngineError"}
                 /\ MapGet(registry', path[c]) = held[c]]_vars

\* save(p) returned the engine error and the Session is still registered.
C5_Witness ==
    \E c \in Callers :
        /\ pc[c] = "done" /\ op[c] = "save"
        /\ result[c] = "EngineError" /\ engine[c] = {"flush"}
        /\ MapHas(registry, path[c])

\* --------------------------------------------------------------------
\* C6: last-initialize-wins.  The insert of initialize(p) returns Ok, leaves
\* exactly one entry for p, the Session this call opened, and makes no
\* engine call besides the open (the entry replaced is not flushed); the
\* Session registered under p is always the one inserted by the initialize
\* call on p that completed last.
C6_LastInitializeWins ==
    /\ [](\A p \in Paths :
            MapHas(registry, p)
                => EntriesOf(registry, p) = {<<p, lastWrite[p]>>})
    /\ [][\A c \in Callers :
        (pc[c] = "i_lock" /\ pc'[c] # "i_lock")
            => /\ pc'[c] = "done"
               /\ result'[c] = "Ok"
               /\ EntriesOf(registry', path[c]) = {<<path[c], held[c]>>}
               /\ lastWrite'[path[c]] = held[c]
               /\ engine'[c] = {"open"}]_vars

\* Both callers completed initialize on the same path; the registry holds
\* the Session of the second open to be inserted.
C6_Witness ==
    \E c, d \in Callers :
        /\ c # d
        /\ pc[c] = "done" /\ op[c] = "initialize" /\ result[c] = "Ok"
        /\ pc[d] = "done" /\ op[d] = "initialize" /\ result[d] = "Ok"
        /\ path[c] = path[d]
        /\ nextSess = 2
        /\ MapHas(registry, path[c])

C8_SessionLifecycle ==
    /\ [](\A c \in Callers :
            op[c] \in ClientScopedOps =>
                /\ pc[c] = "g_call" => held[c] # NoSess
                /\ (pc[c] = "done" /\ result[c] = "NotInitialized")
                      => engine[c] = {}
                /\ engine[c] # {} => pc[c] \in {"g_call", "done"})
    /\ [](\A p \in Paths :
            (lastWrite[p] = Removed /\ lock = FREE) => ~MapHas(registry, p))
    /\ [][\A c \in Callers :
        /\ (pc[c] = "g_lock" /\ pc'[c] # "g_lock")
              => IF MapHas(registry, path[c])
                 THEN \/ /\ pc'[c] = "g_call"
                         /\ held'[c] = MapGet(registry, path[c])
                      \/ /\ op[c] \in ClientOps
                         /\ pc'[c] = "done"
                         /\ result'[c] = "EngineError"
                 ELSE /\ pc'[c] = "done"
                      /\ result'[c] = "NotInitialized"
                      /\ engine'[c] = {}
        /\ (pc[c] = "d_fin" /\ saveRes[c] = "Ok" /\ pc'[c] = "done")
              => ~MapHas(registry', path[c])]_vars

\* After a successful destroy(p) of an initialized path a client-scoped
\* operation on p returned not-initialized without an engine call.
C8_Witness ==
    \E c, d \in Callers :
        /\ c # d
        /\ pc[d] = "done" /\ op[d] = "destroy" /\ result[d] = "Ok"
        /\ path[c] = path[d]
        /\ lastWrite[path[c]] = Removed
        /\ pc[c] = "done" /\ op[c] \in ClientScopedOps
        /\ result[c] = "NotInitialized" /\ engine[c] = {}

\* --------------------------------------------------------------------
\* C9: no operation on q waits for the registry lock while
\* another caller performs engine I/O (open or flush) for a different p.
C9_NoWaitDuringEngineIO ==
    \A c, d \in Callers :
        ~(c # d /\ path[c] # path[d] /\ Waiting(c) /\ InEngineIO(d))

\* --------------------------------------------------------------------
\* C10: the insert of initialize(p) returns Ok and leaves the entries of
\* every other path as they are; so after initialize calls on distinct
\* paths p and q, until a destroy, each path maps to the Session opened for
\* it, which is what a later lookup on that path gets.
C10_DistinctPathsIndependent ==
    /\ [](\A p \in Paths :
            (lastWrite[p] \in Sessions
             /\ ~\E d \in Callers : pc[d] \in {"d_io", "d_fin"} /\ path[d] = p)
                => /\ MapGet(registry, p) = lastWrite[p]
                   /\ SessPath(lastWrite[p]) = p)
    /\ [][\A c \in Callers :
        (pc[c] = "i_lock" /\ pc'[c] # "i_lock")
            => /\ result'[c] = "Ok"
               /\ <<path[c], held[c]>> \in registry'
               /\ \A q \in Paths \ {path[c]} :
                     EntriesOf(registry', q) = EntriesOf(registry, q)]_vars

\* Two concurrent initialize calls on distinct paths: the second insert
\* happens while the first Session is registered, and both are registered.
C10_Witness ==
    \E c, d \in Callers :
        /\ pc[c] = "done" /\ op[c] = "initialize" /\ result[c] = "Ok"
        /\ pc[d] = "done" /\ op[d] = "initialize" /\ result[d] = "Ok"
        /\ path[c] # path[d]
        /\ opsStarted = 2
        /\ <<path[c], lastWrite[path[c]]>> \in registry
        /\ <<path[d], lastWrite[path[d]]>> \in registry

\* --------------------------------------------------------------------
\* C16: the registry lock is never held by a caller that is inside an
\* engine I/O call (snapshot open, snapshot flush).
C16_LockNotHeldAcrossEngineIO ==
    \A c \in Callers : InEngineIO(c) => lock # c

\* --------------------------------------------------------------------
\* C17 as stated: a caller about to make its engine call on a Session of
\* path p holds the Session that is registered under p in that state.
C17_HandleIsRegistered ==
    \A c \in Callers :
        pc[c] = "g_call" => <<path[c], held[c]>> \in registry

\* C17: a client-scoped operation makes its engine call on a handle cloned
\* from the registry: the handle is the Session that was registered under
\* the operation's own path when the lookup was made under the lock, it is
\* kept as it is until the call returns, and the call is made without the
\* lock, whatever happened to the registry entry in between.
C17_HandleClonedAtLookup ==
    /\ [](\A c \in Callers :
            pc[c] = "g_call" =>
                /\ held[c] \in Sessions
                /\ SessPath(held[c]) = path[c]
                /\ held[c][2] <= nextSess
                /\ lock # c)
    /\ [][\A c \in Callers :
        /\ (pc[c] = "g_lock" /\ pc'[c] = "g_call")
              => /\ lock = FREE
                 /\ <<path[c], held'[c]>> \in registry
        /\ (pc[c] = "g_call" /\ pc'[c] = "g_call") => held'[c] = held[c]
        /\ (pc[c] = "g_call" /\ pc'[c] # "g_call")
              => /\ pc'[c] = "done"
                 /\ "call" \in engine'[c]
                 /\ registry' = registry]_vars

\* A caller is about to make its engine call on a handle whose Session a
\* completed destroy of the same path has removed from the registry.
C17_Witness ==
    \E c \in Callers :
        /\ pc[c] = "g_call"
        /\ held[c] \in Sessions
        /\ lock = FREE
        /\ lastWrite[path[c]] = Removed
        /\ ~MapHas(registry, path[c])

\* --------------------------------------------------------------------
\* C18: the steps of initialize before its insert (hash, zeroize, open)
\* leave the map and the lock as they are; initialize returns before the
\* insert only when the open failed, with the engine error and no Session.
C18_FailedInitializeKeepsRegistry ==
    /\ [](\A c \in Callers :
            (op[c] = "initialize" /\ pc[c] = "done" /\ result[c] # "Ok")
                => /\ result[c] = "EngineError"
                   /\ "open" \in engine[c]
                   /\ held[c] = NoSess)
    /\ [][\A c \in Callers :
        (pc[c] \in {"i_hash", "i_zero", "i_open"} /\ pc'[c] # pc[c])
            => /\ registry' = registry
               /\ lock' = lock
               /\ lastWrite' = lastWrite
               /\ pc'[c] = "done"
                     => /\ pc[c] = "i_open"
                        /\ result'[c] = "EngineError"]_vars

\* An initialize of a registered path failed at the open, and the Session
\* inserted before is still the one registered under the path.
C18_Witness ==
    \E c \in Callers :
        /\ op[c] = "initialize" /\ pc[c] = "done"
        /\ result[c] = "EngineError"
        /\ lastWrite[path[c]] \in Sessions
        /\ <<path[c], lastWrite[path[c]]>> \in registry

\* --------------------------------------------------------------------
\* C19: from the removal to the return of destroy(p) the caller holds the
\* lock; meanwhile no other caller passes its lock point, changes the map
\* or gets a not-initialized result, and the reinsertion after a failed
\* flush adds the removed entry to a map that has no entry for p.
C19_DestroyAtomic ==
    /\ [](\A c \in Callers :
            pc[c] \in {"d_io", "d_fin"} =>
                /\ lock = c
                /\ held[c] \in Sessions
                /\ ~MapHas(registry, path[c]))
    /\ [][\A c \in Callers :
        /\ pc[c] \in {"d_io", "d_fin"} =>
              /\ \A d \in Callers \ {c} :
                    /\ pc[d] \in LockPcs => pc'[d] = pc[d]
                    /\ result'[d] = "NotInitialized"
                          => result[d] = "NotInitialized"
              /\ registry' # registry => pc'[c] = "done"
        /\ (pc[c] = "d_fin" /\ saveRes[c] = "EngineError" /\ pc'[c] # "d_fin")
              => /\ registry' = registry \cup {<<path[c], held[c]>>}
                 /\ lock' = FREE]_vars

\* A destroy(p) whose flush failed is about to reinsert the Session while
\* another caller waits at its lock point with an operation on p.
C19_Witness ==
    \E c, d \in Callers :
        /\ c # d
        /\ pc[c] = "d_fin" /\ saveRes[c] = "EngineError"
        /\ path[d] = path[c]
        /\ Waiting(d)
        /\ op[d] \in ClientScopedOps \cup {"initialize"}

\* --------------------------------------------------------------------
\* C11: once save_secret(client, vault, record, s) has succeeded,
\* unsafe_get_secret with the same client, vault and record returns s; once
\* remove_secret has succeeded, it fails; and what a successful
\* unsafe_get_secret returns is the secret stored at the generic Location
\* of its vault and record.
C11_VaultRoundTrip ==
    /\ (last.op = "save_secret" /\ last.res = "Ok")
          => GetSecretResult(last.path, last.client, last.vault, last.record)
                = <<"Ok", Some(last.value)>>
    /\ (last.op = "remove_secret" /\ last.res = "Ok")
          => GetSecretResult(last.path, last.client, last.vault,
                             last.record)[1] = "EngineError"
    /\ (last.op = "unsafe_get_secret" /\ last.res = "Ok")
          => /\ last.out[1] = "Some"
             /\ <<BytesOf(last.client),
                  LocationGeneric(last.vault, last.record),
                  last.out[2]>> \in vaultDb

\* unsafe_get_secret returned the second secret written to a location.
C11_Witness ==
    /\ last.op = "unsafe_get_secret"
    /\ last.res = "Ok"
    /\ last.out = Some(<<2>>)
    /\ Cardinality(vaultDb) > 1

\* --------------------------------------------------------------------
\* Two Tagged Values that are equal, or a text and the raw UTF-8 bytes of it.
SameKey(a, b) ==
    \/ a = b
    \/ a[1] = "Text" /\ b[1] = "Raw" /\ b[2] = Utf8(a[2])
    \/ a[1] = "Raw" /\ b[1] = "Text" /\ a[2] = Utf8(b[2])

\* C15: a text and the raw UTF-8 bytes of it give the same bytes although
\* they differ as values; a client created under one form is found under
\* the other, and a secret saved under one form of client, vault and record
\* is returned by unsafe_get_secret under every other form of them.
C15_IdentityIsBytes ==
    /\ \A a, b \in ClientDtos \cup VaultDtos \cup RecordDtos :
          /\ SameKey(a, b) => BytesOf(a) = BytesOf(b)
          /\ a[1] # b[1] => a # b
    /\ (last.op = "create_client" /\ last.res = "Ok")
          => \A cl \in ClientDtos :
                SameKey(cl, last.client) => ClientLookup(last.path, cl) = "Ok"
    /\ (last.op = "save_secret" /\ last.res = "Ok")
          => \A cl \in ClientDtos, v \in VaultDtos, r \in RecordDtos :
                (/\ SameKey(cl, last.client)
                 /\ SameKey(v, last.vault)
                 /\ SameKey(r, last.record))
                    => GetSecretResult(last.path, cl, v, r)
                          = <<"Ok", Some(last.value)>>

\* The secret written last had text keys, and unsafe_get_secret with the
\* raw UTF-8 bytes of those keys returned a secret.
C15_Witness ==
    /\ wroteAs = "text"
    /\ last.op = "unsafe_get_secret"
    /\ last.res = "Ok"
    /\ FormOf(last.client, last.vault, last.record) = "raw"
    /\ last.record = <<"Raw", <<120>>>>

\* --------------------------------------------------------------------
\* C12: once save_store_record(key, value, no lifetime) has succeeded,
\* get_store_record(key) returns value; once remove_store_record(key) has
\* succeeded, get_store_record(key) returns absent; and with an open Session
\* and an existing client, get and remove succeed whether or not the key is
\* present, returning absent or the value.
C12_StoreRoundTrip ==
    /\ (last.op = "save_store_record" /\ last.res = "Ok"
        /\ last.lifetime = "none")
          => GetStoreResult(last.path, last.client, last.key)
                = <<"Ok", Some(last.value)>>
    /\ (last.op = "remove_store_record" /\ last.res = "Ok")
          => GetStoreResult(last.path, last.client, last.key) = <<"Ok", None>>
    /\ (last.op \in {"get_store_record", "remove_store_record"}
        /\ MapHas(registry, last.path) /\ BytesOf(last.client) \in clients)
          => /\ last.res = "Ok"
             /\ last.out = None \/ last.out[2] \in Secrets

\* get_store_record of a key that has no record returned absent as a
\* success, while another key of the client holds a record without lifetime.
C12_Witness ==
    /\ last.op = "get_store_record"
    /\ last.res = "Ok"
    /\ last.out = None
    /\ \E e \in storeDb : e[1] = BytesOf(last.client) /\ e[4] = "none"

\* --------------------------------------------------------------------
\* s is w with each letter in upper or lower case.
IsSpellingOf(s, w) ==
    /\ Len(s) = Len(w)
    /\ \A i \in 1..Len(w) : s[i] \in {w[i], ToUpperChar(w[i])}

\* C13: a public-key request whose key type is a spelling of "ed25519" is
\* deserialized with the Ed25519 variant, one whose key type is a spelling
\* of "x25519" with the X25519 variant; with any other string it is rejected
\* with "unknown key type" and no procedure is built or handed to the engine.
C13_KeyTypeParser ==
    (req.tag = "PublicKey" /\ stage \notin {"idle", "received"}) =>
        /\ IsSpellingOf(req.ty, Ed25519Str)
              => stage # "rejected" /\ dto.ty = "Ed25519"
        /\ IsSpellingOf(req.ty, X25519Str)
              => stage # "rejected" /\ dto.ty = "X25519"
        /\ (~IsSpellingOf(req.ty, Ed25519Str)
            /\ ~IsSpellingOf(req.ty, X25519Str))
              => /\ stage = "rejected"
                 /\ dto = [tag |-> "error", msg |-> "unknown key type"]
        /\ stage = "rejected" => proc = NoReq /\ handed = <<>>
        /\ stage = "executed" => proc.ty = dto.ty /\ proc.kind = "PublicKey"

\* A public-key request with the key type "curve25519" was rejected.
C13_Witness ==
    /\ stage = "rejected"
    /\ req.tag = "PublicKey"
    /\ req.ty = Curve25519Str
    /\ handed = <<>>

\* --------------------------------------------------------------------
\* The kind of internal procedure that belongs to a request tag.
KindOf(tag) ==
    CASE tag = "SLIP10Generate" -> "Slip10Generate"
      [] tag = "SLIP10Derive" -> "Slip10Derive"
      [] OTHER -> tag

\* What a field of the request is to be in the internal procedure.
ExpectedField(d, f) ==
    CASE f \in {"output", "private_key"} ->
            IF d[f][1] = "Generic"
            THEN <<"generic", BytesOf(d[f][2]), BytesOf(d[f][3])>>
            ELSE <<"counter", BytesOf(d[f][2]), d[f][3]>>
      [] f = "input" ->
            <<d[f][1],
              IF d[f][2][1] = "Generic"
              THEN <<"generic", BytesOf(d[f][2][2]), BytesOf(d[f][2][3])>>
              ELSE <<"counter", BytesOf(d[f][2][2]), d[f][2][3]>>>>
      [] f = "passphrase" -> IF d[f][1] = "None" THEN "" ELSE d[f][2]
      [] f = "msg" -> Utf8(d[f])
      [] OTHER -> d[f]

\* C14: a request that was executed gave exactly one internal procedure, of
\* the kind of its tag, with every field of the request copied, except that
\* an absent passphrase is the empty one, a message is its UTF-8 bytes and a
\* location is the resolved one; the only field added is the mnemonic
\* language; nothing is built or handed over before, and the step that
\* translates changes neither the registry nor the engine state.
C14_TranslatorCopiesFields ==
    /\ [](stage = "executed" =>
            /\ handed = <<proc>>
            /\ proc.kind = KindOf(req.tag)
            /\ \A f \in DOMAIN dto \ {"tag"} :
                  f \in DOMAIN proc /\ proc[f] = ExpectedField(dto, f)
            /\ DOMAIN proc \ {"kind", "language"} = DOMAIN dto \ {"tag"})
    /\ [](stage # "executed" => proc = NoReq /\ handed = <<>>)
    /\ [][(stage # "executed" /\ stage' = "executed")
            => UNCHANGED <<vars, evars>>]_allvars

\* A mnemonic-recover request without passphrase and with a counter
\* location was executed with the empty passphrase.
C14_Witness ==
    /\ stage = "executed"
    /\ req.tag = "BIP39Recover"
    /\ req.passphrase = None
    /\ req.output[1] = "Counter"
    /\ proc.passphrase = ""
    /\ Len(handed) = 1

====
